---- MODULE Spec2Model ----
(***************************************************************************)
(* Hand-misalignment detector: the per-frame result handler of the two     *)
(* CameraFeed components (the legacy one exposing a ref handle and the     *)
(* current one with side-bend angles) and the geometry functions they call.*)
(*                                                                         *)
(* Coordinates are integers on a grid (normalised coordinates scaled by a  *)
(* common factor; atan2 is scale invariant).  Angles are integers in       *)
(* micro-degrees, distances in thousandths of a grid unit.  A JavaScript   *)
(* array is a sequence whose element k+1 is the array's index k.           *)
(*                                                                         *)
(* Four specifications share the definitions: Spec (frames through         *)
(* onResults), SpecGeo (the geometry functions on chosen landmarks),       *)
(* SpecHeap (onResults with object identity and ownership) and SpecCamera  *)
(* (startCamera, stopCamera, toggleCamera and the mount effect).           *)
(***************************************************************************)
EXTENDS Integers, Sequences, FiniteSets, TLC

VARIABLES
    variant,     \* which CameraFeed component is mounted: "legacy" | "current"
    canvasCtx,   \* canvasRef.current and its 2D context are available
    videoEl,     \* videoRef.current is available
    now,         \* Date.now()
    pc,          \* "idle" | "detecting" (a result is being produced) | "done"
    results,     \* the detector's Results object handed to onResults
    delivered,   \* the arguments of the onHandData calls of the last onResults
    outcome,     \* how the last onResults ended: "none" | "returned" | "delivered" | "threw"
    thrownAt,    \* the expression that raised the TypeError, "none" otherwise
    sideBend,    \* the sideBendAngles computed for each hand by the last onResults
    ga, gb, gc,  \* the three landmarks a geometry function is applied to
    gpc,         \* "idle" | "ready" (inputs chosen) | "done" (extractor applied)
    gout,        \* the results of applying the extractor to them
    heap,        \* the objects allocated so far; an object's address is its position
    detLists,    \* results.multiHandLandmarks: the addresses of the detector's arrays
    detLabels,   \* results.multiHandedness: the labels
    hpc,         \* "idle" | "detecting" | "done", as pc
    hframe,      \* the number of frames sent to the detector
    handData,    \* the addresses of the arrays handed to onHandData so far
    trace,       \* per onResults call: its input and what it delivered, by value
    phase,       \* "rendered" (effect not yet run) | "active" | "unmounted"
    isCameraOn,  \* the isCameraOn state
    error,       \* the error state of the current component, "none" for null
    streamRef,   \* streamRef.current: the stream's number, 0 for null
    cameraInstanceRef,  \* cameraInstanceRef.current: the camera's number, 0 for null
    handsRef,    \* handsRef.current of the current component, 0 for null
    srcObject,   \* the video element's srcObject, 0 for null
    metaOwner,   \* the startCamera call whose onloadedmetadata handler is installed
    calls,       \* the startCamera calls: where each is suspended or how it ended
    liveStreams, \* the streams whose tracks have not been stopped
    runningCameras,  \* the camera loops started and not stopped
    stoppedSince,  \* stopCamera has run and startCamera was not called after it
    showArtisticAngles,  \* the showArtisticAngles state
    overlay,     \* the angle text last drawn on the canvas, and for which frame
    windowSize,  \* the App's windowSize state
    showSettings,  \* the settings panel is open
    customWidth, customHeight,  \* the panel's two input texts, as characters
    applied      \* the last step was a custom apply: "accepted" | "rejected", else "none"

frameVars == <<variant, canvasCtx, videoEl, now, pc, results, delivered, outcome,
               thrownAt, sideBend>>

geoVars == <<ga, gb, gc, gpc, gout>>

heapVars == <<heap, detLists, detLabels, hpc, hframe, handData, trace>>

overlayVars == <<showArtisticAngles, overlay>>

camVars == <<phase, isCameraOn, error, streamRef, cameraInstanceRef, handsRef,
             srcObject, metaOwner, calls, liveStreams, runningCameras, stoppedSince,
             overlayVars>>

settingsVars == <<windowSize, showSettings, customWidth, customHeight, applied>>

vars == <<frameVars, geoVars, heapVars, camVars, settingsVars>>

\* ------------------------------------------------------------------ bounds

MaxClock == 1

\* frames sent to the detector, and hands reported over all frames, when
\* objects are tracked
MaxFrames == 3
MaxHeapHands == 3

\* startCamera calls in one life of the component
MaxCalls == 2

\* ------------------------------------------------------- program constants

\* hands.setOptions({ maxNumHands: 2, ... })
maxNumHands == 2

Fingers == {"Thumb", "Index", "Middle", "Ring", "Pinky"}

FINGER_JOINTS ==
    [Thumb  |-> <<1, 2, 4>>,
     Index  |-> <<5, 6, 8>>,
     Middle |-> <<9, 10, 12>>,
     Ring   |-> <<13, 14, 16>>,
     Pinky  |-> <<17, 18, 20>>]

FINGER_TIPS == <<4, 8, 12, 16, 20>>

Labels == {"Left", "Right"}

\* ------------------------------------------------------------- landmarks

\* A raw array element of the detector: a point (z possibly undefined), an
\* array hole, or a null/undefined element.
RawPt(x, y, z, hasZ) == [kind |-> "pt", x |-> x, y |-> y, z |-> z, hasZ |-> hasZ]
RawHole == [kind |-> "hole", x |-> 0, y |-> 0, z |-> 0, hasZ |-> FALSE]
RawNull == [kind |-> "null", x |-> 0, y |-> 0, z |-> 0, hasZ |-> FALSE]

\* HandLandmark, and the value `undefined` an array read yields
Landmark(x, y, z) == [kind |-> "pt", x |-> x, y |-> y, z |-> z]
Undefined == [kind |-> "undefined", x |-> 0, y |-> 0, z |-> 0]

\* lm[k]: an index outside the array, or a hole, reads as undefined
At(lm, k) == IF k + 1 \in 1..Len(lm) THEN lm[k + 1] ELSE Undefined

\* JavaScript truthiness of lm[k]: every object is truthy, undefined is not
Truthy(l) == l.kind = "pt"

\* ------------------------------------------------------------------ maths

Abs(n) == IF n < 0 THEN -n ELSE n

\* atan(p/q) in micro-degrees for 0 <= p <= q, q > 0, q <= 5
AtanTable ==
    { [p |-> 0, q |-> 1, v |-> 0],
      [p |-> 1, q |-> 1, v |-> 45000000],
      [p |-> 1, q |-> 2, v |-> 26565051],
      [p |-> 1, q |-> 3, v |-> 18434949],
      [p |-> 2, q |-> 3, v |-> 33690068],
      [p |-> 1, q |-> 4, v |-> 14036243],
      [p |-> 3, q |-> 4, v |-> 36869898],
      [p |-> 1, q |-> 5, v |-> 11309932],
      [p |-> 2, q |-> 5, v |-> 21801409],
      [p |-> 3, q |-> 5, v |-> 30963757],
      [p |-> 4, q |-> 5, v |-> 38659808] }

AtanRatio(p, q) == (CHOOSE e \in AtanTable : e.p * q = e.q * p).v

\* Math.atan2(dy, dx) * (180 / Math.PI), in micro-degrees, in (-180, 180];
\* a difference of equal coordinates is +0, so atan2(0, dx < 0) is +180
Atan2Deg(dy, dx) ==
    LET ax == Abs(dx)
        ay == Abs(dy)
        phi == IF ax = 0 /\ ay = 0 THEN 0
               ELSE IF ay <= ax THEN AtanRatio(ay, ax)
               ELSE 90000000 - AtanRatio(ax, ay)
    IN  IF dx >= 0
        THEN (IF dy < 0 THEN -phi ELSE phi)
        ELSE (IF dy < 0 THEN phi - 180000000 ELSE 180000000 - phi)

RECURSIVE SqrtSearch(_, _, _)
SqrtSearch(v, lo, hi) ==
    IF lo >= hi THEN lo
    ELSE LET mid == (lo + hi + 1) \div 2
         IN  IF mid * mid <= v THEN SqrtSearch(v, mid, hi)
             ELSE SqrtSearch(v, lo, mid - 1)

\* Math.hypot(dx, dy), in thousandths, rounded down
Hypot(dx, dy) == SqrtSearch((dx * dx + dy * dy) * 1000000, 0, 20000)

\* ------------------------------------------------------- angle extractor

\* a plausible slip: the reflection of values above 180 is left out
calculateAngle_noReflect(a, b, c) ==
    Abs(Atan2Deg(c.y - b.y, c.x - b.x) - Atan2Deg(a.y - b.y, a.x - b.x))

\* a plausible slip: Math.abs is left out
calculateAngle_signed(a, b, c) ==
    LET deg == Atan2Deg(c.y - b.y, c.x - b.x) - Atan2Deg(a.y - b.y, a.x - b.x)
    IN  IF deg > 180000000 THEN 360000000 - deg ELSE deg

\* a plausible slip: the angle is taken from normalised vectors, and the
\* division by a zero length gives NaN (written -1) when the points coincide
calculateAngle_nanAtCoincident(a, b, c) ==
    LET rad == Atan2Deg(c.y - b.y, c.x - b.x) - Atan2Deg(a.y - b.y, a.x - b.x)
        deg == Abs(rad)
    IN  IF (a.x = b.x /\ a.y = b.y) \/ (c.x = b.x /\ c.y = b.y) THEN -1
        ELSE IF deg > 180000000 THEN 360000000 - deg ELSE deg

calculateAngle(a, b, c) ==
    LET rad == Atan2Deg(c.y - b.y, c.x - b.x) - Atan2Deg(a.y - b.y, a.x - b.x)
        deg == Abs(rad)
    IN  IF deg > 180000000 THEN 360000000 - deg ELSE deg

\* a plausible slip: the side bend is computed in the (x, y) plane
calculateSideBend_frontal(a, b, c) ==
    LET rad == Atan2Deg(c.y - b.y, c.x - b.x) - Atan2Deg(a.y - b.y, a.x - b.x)
        deg == Abs(rad)
    IN  IF deg > 180000000 THEN 360000000 - deg ELSE deg

calculateSideBend(a, b, c) ==
    LET rad == Atan2Deg(c.x - b.x, c.z - b.z) - Atan2Deg(a.x - b.x, a.z - b.z)
        deg == Abs(rad)
    IN  IF deg > 180000000 THEN 360000000 - deg ELSE deg

\* const angles = { Thumb: 0, Index: 0, Middle: 0, Ring: 0, Pinky: 0 }
InitialAngles == [f \in Fingers |-> 0]

\* a plausible slip: the guard forgets the tip, and the tip is read as the origin
processAngles_noTipGuard(lm) ==
    [f \in DOMAIN InitialAngles |->
        LET a == FINGER_JOINTS[f][1]
            b == FINGER_JOINTS[f][2]
            c == FINGER_JOINTS[f][3]
        IN  IF Truthy(At(lm, a)) /\ Truthy(At(lm, b))
            THEN calculateAngle(At(lm, a), At(lm, b), At(lm, c))
            ELSE InitialAngles[f]]

\* a plausible slip: a landmark at the origin is taken for a missing one
processAngles_zeroIsMissing(lm) ==
    [f \in DOMAIN InitialAngles |->
        LET a == FINGER_JOINTS[f][1]
            b == FINGER_JOINTS[f][2]
            c == FINGER_JOINTS[f][3]
            Has(l) == Truthy(l) /\ ~(l.x = 0 /\ l.y = 0 /\ l.z = 0)
        IN  IF Has(At(lm, a)) /\ Has(At(lm, b)) /\ Has(At(lm, c))
            THEN calculateAngle(At(lm, a), At(lm, b), At(lm, c))
            ELSE InitialAngles[f]]

processAngles(lm) ==
    [f \in DOMAIN InitialAngles |->
        LET a == FINGER_JOINTS[f][1]
            b == FINGER_JOINTS[f][2]
            c == FINGER_JOINTS[f][3]
        IN  IF Truthy(At(lm, a)) /\ Truthy(At(lm, b)) /\ Truthy(At(lm, c))
            THEN calculateAngle(At(lm, a), At(lm, b), At(lm, c))
            ELSE InitialAngles[f]]

processSideAngles(lm) ==
    [f \in DOMAIN InitialAngles |->
        LET a == FINGER_JOINTS[f][1]
            b == FINGER_JOINTS[f][2]
            c == FINGER_JOINTS[f][3]
        IN  IF Truthy(At(lm, a)) /\ Truthy(At(lm, b)) /\ Truthy(At(lm, c))
            THEN calculateSideBend(At(lm, a), At(lm, b), At(lm, c))
            ELSE InitialAngles[f]]

\* `${FINGER_TIPS[i]}_${FINGER_TIPS[i + 1]}`, for the loop index i = 1..4
PairKey(i) == ToString(FINGER_TIPS[i]) \o "_" \o ToString(FINGER_TIPS[i + 1])

PairLoop == 1..(Len(FINGER_TIPS) - 1)

\* a plausible slip: Math.abs is left out
PairAngle_signed(tip1, tip2) == Atan2Deg(tip2.y - tip1.y, tip2.x - tip1.x)

\* Math.abs(Math.atan2(dy, dx) * 180 / Math.PI) of the vector tip1 -> tip2
PairAngle(tip1, tip2) == Abs(Atan2Deg(tip2.y - tip1.y, tip2.x - tip1.x))

\* current component: a pair is computed only when both tips are truthy
processFingerPairAngles(lm) ==
    LET present == { i \in PairLoop :
                        /\ Truthy(At(lm, FINGER_TIPS[i]))
                        /\ Truthy(At(lm, FINGER_TIPS[i + 1])) }
        keyOf == [i \in present |-> PairKey(i)]
    IN  [k \in { keyOf[i] : i \in present } |->
            LET i == CHOOSE j \in present : keyOf[j] = k
            IN  PairAngle(At(lm, FINGER_TIPS[i]), At(lm, FINGER_TIPS[i + 1]))]

\* legacy component: no guard; reading .x of an undefined tip is a TypeError
processFingerPairAnglesLegacyThrows(lm) ==
    \E i \in PairLoop :
        \/ ~Truthy(At(lm, FINGER_TIPS[i]))
        \/ ~Truthy(At(lm, FINGER_TIPS[i + 1]))

\* legacy component, when it does not throw: all four pairs
processFingerPairAnglesLegacy(lm) ==
    [k \in { PairKey(i) : i \in PairLoop } |->
        LET i == CHOOSE j \in PairLoop : PairKey(j) = k
        IN  PairAngle(At(lm, FINGER_TIPS[i]), At(lm, FINGER_TIPS[i + 1]))]

\* a plausible slip: the distance is taken in three dimensions
Gap_withDepth(lm) ==
    IF Truthy(At(lm, 4)) /\ Truthy(At(lm, 8))
    THEN LET dx == At(lm, 8).x - At(lm, 4).x
             dy == At(lm, 8).y - At(lm, 4).y
             dz == At(lm, 8).z - At(lm, 4).z
         IN  SqrtSearch((dx * dx + dy * dy + dz * dz) * 1000000, 0, 20000)
    ELSE 0

\* current component: thumbTip && indexTip ? Math.hypot(...) : 0
Gap(lm) ==
    IF Truthy(At(lm, 4)) /\ Truthy(At(lm, 8))
    THEN Hypot(At(lm, 8).x - At(lm, 4).x, At(lm, 8).y - At(lm, 4).y)
    ELSE 0

\* legacy component: Math.hypot(indexTip.x - thumbTip.x, ...) without a guard
GapLegacyThrows(lm) == ~Truthy(At(lm, 4)) \/ ~Truthy(At(lm, 8))

GapLegacy(lm) == Hypot(At(lm, 8).x - At(lm, 4).x, At(lm, 8).y - At(lm, 4).y)

\* -------------------------------------------------------- frame assembler

\* landmarks.map((l) => ({ x: l.x, y: l.y, z: l.z ?? 0 })): map skips holes and
\* keeps them; reading l.x of a null/undefined element is a TypeError
MapThrows(landmarks) == \E j \in 1..Len(landmarks) : landmarks[j].kind = "null"

MapLandmarks(landmarks) ==
    [j \in 1..Len(landmarks) |->
        IF landmarks[j].kind = "pt"
        THEN Landmark(landmarks[j].x, landmarks[j].y,
                      IF landmarks[j].hasZ THEN landmarks[j].z ELSE 0)
        ELSE Undefined]

\* results.multiHandedness[i].label: a TypeError when the entry is undefined
HandednessThrows(res, i) == i > Len(res.multiHandedness)

\* a plausible slip: the label of the first hand is used for every hand
HandednessAt_first(res, i) == res.multiHandedness[1]

HandednessAt(res, i) == res.multiHandedness[i]

\* the body of the forEach callback up to hands.push(hand), for the hand at
\* sequence position i: the expression that throws, or the assembled HandData
\* (sideBendAngles of the current component feeds the overlay only and is no
\* field of HandData)
ProcessHand(v, res, i, t) ==
    LET landmarks == res.multiHandLandmarks[i]
        lm == MapLandmarks(landmarks)
    IN  IF HandednessThrows(res, i)
        THEN [thrownAt |-> "multiHandedness[i].label"]
        ELSE IF MapThrows(landmarks)
        THEN [thrownAt |-> "landmarks.map"]
        ELSE IF v = "legacy" /\ processFingerPairAnglesLegacyThrows(lm)
        THEN [thrownAt |-> "processFingerPairAngles"]
        ELSE IF v = "legacy" /\ GapLegacyThrows(lm)
        THEN [thrownAt |-> "gap"]
        ELSE [thrownAt |-> "none",
              hand |-> [landmarks        |-> lm,
                        fingerAngles     |-> processAngles(lm),
                        fingerPairAngles |-> IF v = "legacy"
                                             THEN processFingerPairAnglesLegacy(lm)
                                             ELSE processFingerPairAngles(lm),
                        handedness       |-> HandednessAt(res, i),
                        gap              |-> IF v = "legacy" THEN GapLegacy(lm)
                                             ELSE Gap(lm),
                        timestamp        |-> t]]

\* a plausible slip: hands.unshift(hand)
Push_front(hands, hand) == <<hand>> \o hands

\* hands.push(hand)
Push(hands, hand) == Append(hands, hand)

\* results.multiHandLandmarks.forEach(...) from position i on; an exception
\* leaves the loop at once
RECURSIVE ForEachHand(_, _, _, _, _)
ForEachHand(v, res, i, hands, t) ==
    IF i > Len(res.multiHandLandmarks)
    THEN [thrownAt |-> "none", hands |-> hands]
    ELSE LET r == ProcessHand(v, res, i, t)
         IN  IF r.thrownAt # "none"
             THEN [thrownAt |-> r.thrownAt, hands |-> hands]
             ELSE ForEachHand(v, res, i + 1, Push(hands, r.hand), t)

\* if (!ctx || !canvas || !videoRef.current) return;
EarlyReturn(ctx, video) == ~ctx \/ ~video

\* if (results.multiHandLandmarks && results.multiHandedness): an array, even
\* an empty one, is truthy
HandsReported(res) == res.hasLandmarks /\ res.hasHandedness

\* a plausible slip: if (hands.length) onHandData(hands)
Deliver_nonEmptyOnly(hands) == IF hands = <<>> THEN <<>> ELSE <<hands>>

\* onHandData(hands): the calls made, as the sequence of their arguments
Deliver(hands) == <<hands>>

\* const sideBendAngles = processSideAngles(lm) of the current component, for
\* every hand that reached hands.push (the expressions that can throw in the
\* current component come before it); the legacy component has none
SideBendOf(v, hands) ==
    IF v = "current"
    THEN [i \in 1..Len(hands) |-> processSideAngles(hands[i].landmarks)]
    ELSE <<>>

\* onResults(results): how it ends, what it handed to onHandData, and the
\* side-bend angles it computed for the overlay
onResults(v, ctx, video, res, t) ==
    IF EarlyReturn(ctx, video)
    THEN [outcome |-> "returned", thrownAt |-> "none", delivered |-> <<>>,
          sideBend |-> <<>>]
    ELSE LET r == IF HandsReported(res)
                  THEN ForEachHand(v, res, 1, <<>>, t)
                  ELSE [thrownAt |-> "none", hands |-> <<>>]
             side == SideBendOf(v, r.hands)
         IN  IF r.thrownAt # "none"
             THEN [outcome |-> "threw", thrownAt |-> r.thrownAt, delivered |-> <<>>,
                   sideBend |-> side]
             ELSE [outcome |-> "delivered", thrownAt |-> "none",
                   delivered |-> Deliver(r.hands), sideBend |-> side]

\* ------------------------------------------------------- detector output

Poses == {"open", "bent"}

\* the tip of finger f relative to its middle joint, in the bent pose
BentTip == [Thumb  |-> <<1, 0>>,
            Index  |-> <<1, -1>>,
            Middle |-> <<-1, 1>>,
            Ring   |-> <<0, -2>>,
            Pinky  |-> <<-1, 0>>]

FingerName == <<"Thumb", "Index", "Middle", "Ring", "Pinky">>

\* the detector's point for landmark index k (0 = wrist; finger f has the
\* indices 4f+1 .. 4f+4, base to tip)
PosePt(pose, k) ==
    IF k = 0 THEN RawPt(3, 5, 0, TRUE)
    ELSE LET f == (k - 1) \div 4
             p == ((k - 1) % 4) + 1
         IN  IF pose = "open" THEN RawPt(f + 1, 5 - p, 0, TRUE)
             ELSE IF p = 4
             THEN RawPt(f + 1 + BentTip[FingerName[f + 1]][1],
                        3 + BentTip[FingerName[f + 1]][2], p - 1, TRUE)
             ELSE RawPt(f + 1, 5 - p, p - 1, TRUE)

Defects ==
    { [d |-> "none", k |-> 0],
      [d |-> "truncate", k |-> 20], [d |-> "truncate", k |-> 4],
      [d |-> "extend", k |-> 22],
      [d |-> "hole", k |-> 4], [d |-> "hole", k |-> 6], [d |-> "hole", k |-> 8],
      [d |-> "null", k |-> 6],
      [d |-> "noZ", k |-> 0] }
    \cup { [d |-> "zero", k |-> FINGER_TIPS[i]] : i \in 1..Len(FINGER_TIPS) }

\* one hand as the detector may report it: the 21 points of a pose, possibly
\* cut short, extended, with a hole or a null element, without depth, or with
\* one fingertip at the origin
MakeHand(pose, defect) ==
    LET base == [j \in 1..21 |-> PosePt(pose, j - 1)]
    IN  CASE defect.d = "none"     -> base
          [] defect.d = "truncate" -> SubSeq(base, 1, defect.k)
          [] defect.d = "extend"   -> Append(base, RawPt(3, 0, 0, TRUE))
          [] defect.d = "hole"     -> [base EXCEPT ![defect.k + 1] = RawHole]
          [] defect.d = "null"     -> [base EXCEPT ![defect.k + 1] = RawNull]
          [] defect.d = "noZ"      -> [j \in 1..21 |-> [base[j] EXCEPT !.hasZ = FALSE]]
          [] defect.d = "zero"     -> [base EXCEPT ![defect.k + 1] = RawPt(0, 0, 0, TRUE)]

HandPool == { MakeHand(pose, defect) : pose \in Poses, defect \in Defects }

NoResults ==
    [hasLandmarks |-> FALSE, multiHandLandmarks |-> <<>>,
     hasHandedness |-> FALSE, multiHandedness |-> <<>>]

\* ------------------------------------------------------------ the machine

\* the geometry variables when no geometry function is being exercised
GeoIdle ==
    /\ ga = Undefined
    /\ gb = Undefined
    /\ gc = Undefined
    /\ gpc = "idle"
    /\ gout = <<>>

\* the frame variables of a mounted component before any frame
FrameIdle ==
    /\ canvasCtx = TRUE
    /\ videoEl = TRUE
    /\ now = 0
    /\ pc = "idle"
    /\ results = NoResults
    /\ delivered = <<>>
    /\ outcome = "none"
    /\ thrownAt = "none"
    /\ sideBend = <<>>

\* no object allocated, no frame sent
HeapIdle ==
    /\ heap = <<>>
    /\ detLists = <<>>
    /\ detLabels = <<>>
    /\ hpc = "idle"
    /\ hframe = 0
    /\ handData = <<>>
    /\ trace = <<>>

\* useState({ width: 1200, height: 800 }) in the App of the current
\* component, useState({ width: 1024, height: 768 }) in the other
InitialWindowSize(v) ==
    IF v = "current" THEN [width |-> 1200, height |-> 800]
    ELSE [width |-> 1024, height |-> 768]

\* the App as first rendered: the settings panel is closed
SettingsIdle ==
    /\ windowSize = InitialWindowSize(variant)
    /\ showSettings = FALSE
    /\ customWidth = <<>>
    /\ customHeight = <<>>
    /\ applied = "none"

\* nothing drawn yet
NoOverlay ==
    [drawn |-> FALSE, label |-> "none", angles |-> InitialAngles,
     selected |-> FALSE, lm |-> <<>>]

\* the component as first rendered: camera off, refs null, no effect run
CamIdle ==
    /\ phase = "rendered"
    /\ isCameraOn = FALSE
    /\ error = "none"
    /\ streamRef = 0
    /\ cameraInstanceRef = 0
    /\ handsRef = 0
    /\ srcObject = 0
    /\ metaOwner = 0
    /\ calls = <<>>
    /\ liveStreams = {}
    /\ runningCameras = {}
    /\ stoppedSince = FALSE
    /\ showArtisticAngles = FALSE
    /\ overlay = NoOverlay

Init ==
    /\ variant \in {"legacy", "current"}
    /\ FrameIdle
    /\ GeoIdle
    /\ HeapIdle
    /\ CamIdle
    /\ SettingsIdle

\* the component's elements are detached (the refs become null) or attached
Unmount ==
    /\ canvasCtx /\ videoEl
    /\ canvasCtx' = FALSE /\ videoEl' = FALSE
    /\ UNCHANGED <<variant, now, pc, results, delivered, outcome, thrownAt, sideBend>>
    /\ UNCHANGED <<geoVars, heapVars, camVars, settingsVars>>

Mount ==
    /\ ~canvasCtx /\ ~videoEl
    /\ canvasCtx' = TRUE /\ videoEl' = TRUE
    /\ UNCHANGED <<variant, now, pc, results, delivered, outcome, thrownAt, sideBend>>
    /\ UNCHANGED <<geoVars, heapVars, camVars, settingsVars>>

Tick ==
    /\ now < MaxClock
    /\ now' = now + 1
    /\ UNCHANGED <<variant, canvasCtx, videoEl, pc, results, delivered, outcome, thrownAt, sideBend>>
    /\ UNCHANGED <<geoVars, heapVars, camVars, settingsVars>>

\* hands.send({ image: video }): the detector starts on a frame; its result
\* may or may not carry the two arrays
Send(hasL, hasH) ==
    /\ pc \in {"idle", "done"}
    /\ pc' = "detecting"
    /\ results' = [hasLandmarks |-> hasL, multiHandLandmarks |-> <<>>,
                   hasHandedness |-> hasH, multiHandedness |-> <<>>]
    /\ delivered' = <<>>
    /\ outcome' = "none"
    /\ thrownAt' = "none"
    /\ sideBend' = <<>>
    /\ UNCHANGED <<variant, canvasCtx, videoEl, now>>
    /\ UNCHANGED <<geoVars, heapVars, camVars, settingsVars>>

\* the detector adds a hand's landmark list to its result
DetectHand(h) ==
    /\ pc = "detecting"
    /\ results.hasLandmarks
    /\ Len(results.multiHandLandmarks) < maxNumHands
    /\ results' = [results EXCEPT !.multiHandLandmarks = Append(@, h)]
    /\ UNCHANGED <<variant, canvasCtx, videoEl, now, pc, delivered, outcome, thrownAt, sideBend>>
    /\ UNCHANGED <<geoVars, heapVars, camVars, settingsVars>>

\* the detector adds a handedness label to its result
DetectHandedness(l) ==
    /\ pc = "detecting"
    /\ results.hasHandedness
    /\ Len(results.multiHandedness) < maxNumHands
    /\ results' = [results EXCEPT !.multiHandedness = Append(@, l)]
    /\ UNCHANGED <<variant, canvasCtx, videoEl, now, pc, delivered, outcome, thrownAt, sideBend>>
    /\ UNCHANGED <<geoVars, heapVars, camVars, settingsVars>>

\* the detector invokes the registered callback with its result
OnResults ==
    /\ pc = "detecting"
    /\ LET r == onResults(variant, canvasCtx, videoEl, results, now)
       IN  /\ outcome' = r.outcome
           /\ thrownAt' = r.thrownAt
           /\ delivered' = r.delivered
           /\ sideBend' = r.sideBend
    /\ pc' = "done"
    /\ UNCHANGED <<variant, canvasCtx, videoEl, now, results>>
    /\ UNCHANGED <<geoVars, heapVars, camVars, settingsVars>>

Next ==
    \/ Unmount
    \/ Mount
    \/ Tick
    \/ \E hasL \in BOOLEAN, hasH \in BOOLEAN : Send(hasL, hasH)
    \/ \E h \in HandPool : DetectHand(h)
    \/ \E l \in Labels : DetectHandedness(l)
    \/ OnResults

Spec == Init /\ [][Next]_vars


\* --------------------------------------- the extractor on chosen landmarks

GridMax == 4

Depths == {0, 1}

\* landmarks on the grid
GeoPoints == { Landmark(x, y, z) : x \in 0..GridMax, y \in 0..GridMax, z \in Depths }

\* a mapped hand (HandLandmark[]) in the open pose whose thumb tip (4) and
\* index base (5) are a, whose index joint (6) is b and whose index tip (8) is c
OpenHand == MapLandmarks(MakeHand("open", [d |-> "none", k |-> 0]))

GeoHand(a, b, c) == [OpenHand EXCEPT ![5] = a, ![6] = a, ![7] = b, ![9] = c]

\* the four extractor calls of the forEach callback of the current component:
\* processAngles, processFingerPairAngles, processSideAngles and the gap
Extractor(lm) ==
    [fingerAngles     |-> processAngles(lm),
     fingerPairAngles |-> processFingerPairAngles(lm),
     sideBendAngles   |-> processSideAngles(lm),
     gap              |-> Gap(lm)]

InitGeo ==
    /\ variant = "current"
    /\ FrameIdle
    /\ HeapIdle
    /\ CamIdle
    /\ SettingsIdle
    /\ ga \in GeoPoints
    /\ gb \in GeoPoints
    /\ gc \in GeoPoints
    /\ gpc = "ready"
    /\ gout = <<>>

\* the extractor applied to the hand of (a, b, c); processAngles applied to
\* the hand with a and c swapped; processFingerPairAngles to the hand whose
\* two tips have their y exchanged (dy negated); the gap of the hand whose
\* thumb tip is one unit deeper
Extract ==
    /\ gpc = "ready"
    /\ gpc' = "done"
    /\ gout' = [direct   |-> Extractor(GeoHand(ga, gb, gc)),
                swapped  |-> processAngles(GeoHand(gc, gb, ga)),
                mirrored |-> processFingerPairAngles(
                                 GeoHand([ga EXCEPT !.y = gc.y], gb,
                                         [gc EXCEPT !.y = ga.y])),
                lifted   |-> Gap(GeoHand([ga EXCEPT !.z = @ + 1], gb, gc))]
    /\ UNCHANGED <<ga, gb, gc>>
    /\ UNCHANGED <<frameVars, heapVars, camVars, settingsVars>>

NextGeo == Extract

SpecGeo == InitGeo /\ [][NextGeo]_vars


\* ------------------------------------- objects, references and ownership

\* An object: a point, an array of references (0 for a hole, -1 for a null
\* element), a HandData record (its reference is the landmarks array, its
\* other fields are held by value), owned by the detector or the component.
PointObj(owner, pt) ==
    [kind |-> "point", owner |-> owner, items |-> <<>>, val |-> pt]
ArrayObj(owner, items) ==
    [kind |-> "array", owner |-> owner, items |-> items, val |-> Undefined]
RecordObj(lmAddr, hand) ==
    [kind |-> "record", owner |-> "component", items |-> <<lmAddr>>,
     val |-> [fingerAngles     |-> hand.fingerAngles,
              fingerPairAngles |-> hand.fingerPairAngles,
              handedness       |-> hand.handedness,
              gap              |-> hand.gap,
              timestamp        |-> hand.timestamp]]

Range(s) == { s[i] : i \in DOMAIN s }

\* the number of references among the first k elements
RefCount(items, k) == Cardinality({ j \in 1..k : items[j] > 0 })

\* the references of the detector's array for hand h when its points are
\* stored from address base + 1 on
RefsFrom(h, base) ==
    [k \in 1..Len(h) |->
        IF h[k].kind = "pt"
        THEN base + Cardinality({ j \in 1..k : h[j].kind = "pt" })
        ELSE IF h[k].kind = "hole" THEN 0 ELSE -1]

PointsOf(h) == SelectSeq(h, LAMBDA e : e.kind = "pt")

\* the detector builds the landmark array of a hand from new objects; the
\* array is the last object allocated
DetectorAlloc(H, h) ==
    H \o [k \in 1..Len(PointsOf(h)) |-> PointObj("detector", PointsOf(h)[k])]
      \o <<ArrayObj("detector", RefsFrom(h, Len(H)))>>

\* the detector writes the landmarks of hand h into the objects of its array d
DetectorOverwrite(H, d, h) ==
    [a \in 1..Len(H) |->
        IF a \in Range(H[d].items)
        THEN [H[a] EXCEPT !.val = h[CHOOSE k \in 1..Len(h) : H[d].items[k] = a]]
        ELSE H[a]]

\* the detector's array at address a, read element by element
DerefRaw(H, a) ==
    [k \in 1..Len(H[a].items) |->
        IF H[a].items[k] > 0 THEN H[H[a].items[k]].val
        ELSE IF H[a].items[k] = 0 THEN RawHole ELSE RawNull]

\* the Results object the detector hands to onResults
HeapResults ==
    [hasLandmarks |-> TRUE,
     multiHandLandmarks |-> [i \in 1..Len(detLists) |-> DerefRaw(heap, detLists[i])],
     hasHandedness |-> TRUE,
     multiHandedness |-> detLabels]

\* a plausible slip: landmarks.map((l) => l)
MapCallbackResult_alias(l, fresh) == l

\* the value of the map callback for the element at address l:
\* ({ x: l.x, y: l.y, z: l.z ?? 0 }) is a new object
MapCallbackResult(l, fresh) == fresh

\* a plausible slip: `hands` is declared outside onResults and keeps the
\* records of the previous call
HandsAtEntry_hoisted(prev) == prev

\* const hands: HandData[] = [] at the start of every onResults call,
\* whatever the array of the previous call held
HandsAtEntry(prev) == <<>>

\* the objects of the record of one hand (value hand), allocated from
\* address base + 1 on and built from the detector's array of references raw:
\* the copied points, the lm array, the record
HandObjects(base, raw, hand) ==
    LET n == RefCount(raw, Len(raw))
        pts == [j \in 1..n |->
                   PointObj("component",
                            hand.landmarks[CHOOSE k \in 1..Len(raw) :
                                               raw[k] > 0 /\ RefCount(raw, k) = j])]
        lm == [k \in 1..Len(raw) |->
                  IF raw[k] > 0
                  THEN MapCallbackResult(raw[k], base + RefCount(raw, k))
                  ELSE 0]
    IN  pts \o <<ArrayObj("component", lm), RecordObj(base + n + 1, hand)>>

\* the forEach loop from hand i on, allocating after the objects of H: the
\* new objects and the addresses of the records pushed
RECURSIVE AllocHands(_, _, _, _, _)
AllocHands(H, base, i, hs, recs) ==
    IF i > Len(hs) THEN [objects |-> <<>>, recs |-> recs]
    ELSE LET objs == HandObjects(base, H[detLists[i]].items, hs[i])
             rest == AllocHands(H, base + RefCount(H[detLists[i]].items,
                                                   Len(H[detLists[i]].items)) + 2,
                                i + 1, hs,
                                Append(recs, base + RefCount(H[detLists[i]].items,
                                                   Len(H[detLists[i]].items)) + 2))
         IN  [objects |-> objs \o rest.objects, recs |-> rest.recs]

\* a landmarks array of a record, read element by element
DerefLm(H, a) ==
    [k \in 1..Len(H[a].items) |->
        IF H[a].items[k] > 0 THEN H[H[a].items[k]].val ELSE Undefined]

\* what a consumer reads from the hands array at address a, timestamps aside
DerefHands(H, a) ==
    [k \in 1..Len(H[a].items) |->
        LET rec == H[H[a].items[k]]
        IN  [landmarks        |-> DerefLm(H, rec.items[1]),
             fingerAngles     |-> rec.val.fingerAngles,
             fingerPairAngles |-> rec.val.fingerPairAngles,
             handedness       |-> rec.val.handedness,
             gap              |-> rec.val.gap]]

\* the hands and labels the detector reports when objects are tracked
HeapPool ==
    { [hand |-> MakeHand("open", [d |-> "none", k |-> 0]), label |-> "Left"],
      [hand |-> MakeHand("bent", [d |-> "none", k |-> 0]), label |-> "Right"],
      [hand |-> MakeHand("open", [d |-> "hole", k |-> 6]), label |-> "Right"],
      [hand |-> MakeHand("bent", [d |-> "null", k |-> 6]), label |-> "Left"] }

\* the hands the detector has reported so far, over all frames
RECURSIVE HandsProcessed(_)
HandsProcessed(n) ==
    IF n = 0 THEN 0
    ELSE Len(trace[n].input.multiHandLandmarks) + HandsProcessed(n - 1)

HandsReportedSoFar ==
    HandsProcessed(Len(trace)) + (IF hpc = "detecting" THEN Len(detLists) ELSE 0)

InitHeap ==
    /\ variant \in {"legacy", "current"}
    /\ FrameIdle
    /\ GeoIdle
    /\ HeapIdle
    /\ CamIdle
    /\ SettingsIdle

\* hands.send({ image: video }): the detector starts on a frame
HeapSend ==
    /\ hpc \in {"idle", "done"}
    /\ hframe < MaxFrames
    /\ hframe' = hframe + 1
    /\ hpc' = "detecting"
    /\ detLists' = <<>>
    /\ detLabels' = <<>>
    /\ UNCHANGED <<heap, handData, trace>>
    /\ UNCHANGED <<frameVars, geoVars, camVars, settingsVars>>

\* the detector reports a hand in newly allocated objects
HeapDetectFresh(e) ==
    /\ hpc = "detecting"
    /\ Len(detLists) < maxNumHands
    /\ HandsReportedSoFar < MaxHeapHands
    /\ heap' = DetectorAlloc(heap, e.hand)
    /\ detLists' = Append(detLists, Len(heap'))
    /\ detLabels' = Append(detLabels, e.label)
    /\ UNCHANGED <<hpc, hframe, handData, trace>>
    /\ UNCHANGED <<frameVars, geoVars, camVars, settingsVars>>

\* the detector reports a hand in the objects of an earlier frame, which it
\* owns and may reuse
HeapDetectInPlace(e, d) ==
    /\ hpc = "detecting"
    /\ Len(detLists) < maxNumHands
    /\ HandsReportedSoFar < MaxHeapHands
    /\ heap[d].kind = "array" /\ heap[d].owner = "detector"
    /\ d \notin Range(detLists)
    /\ heap[d].items = RefsFrom(e.hand, d - 1 - Len(PointsOf(e.hand)))
    /\ heap' = DetectorOverwrite(heap, d, e.hand)
    /\ detLists' = Append(detLists, d)
    /\ detLabels' = Append(detLabels, e.label)
    /\ UNCHANGED <<hpc, hframe, handData, trace>>
    /\ UNCHANGED <<frameVars, geoVars, camVars, settingsVars>>

\* the detector invokes onResults: the hands array, the records and their
\* landmark copies are allocated, and the array is handed to onHandData
HeapOnResults ==
    /\ hpc = "detecting"
    /\ \E r \in {onResults(variant, canvasCtx, videoEl, HeapResults, hframe)} :
          IF r.outcome = "delivered" /\ r.delivered # <<>>
          THEN \E built \in {AllocHands(heap, Len(heap), 1, r.delivered[1], <<>>)} :
                  /\ heap' = Append(heap \o built.objects,
                                    ArrayObj("component",
                                             HandsAtEntry(
                                                 IF handData = <<>> THEN <<>>
                                                 ELSE heap[handData[Len(handData)]].items)
                                             \o built.recs))
                  /\ handData' = Append(handData, Len(heap'))
                  /\ trace' = Append(trace,
                                     [input    |-> HeapResults,
                                      outcome  |-> r.outcome,
                                      thrownAt |-> r.thrownAt,
                                      hands    |-> DerefHands(heap', Len(heap'))])
          ELSE /\ trace' = Append(trace,
                                  [input    |-> HeapResults,
                                   outcome  |-> r.outcome,
                                   thrownAt |-> r.thrownAt,
                                   hands    |-> <<>>])
               /\ UNCHANGED <<heap, handData>>
    /\ hpc' = "done"
    /\ UNCHANGED <<detLists, detLabels, hframe>>
    /\ UNCHANGED <<frameVars, geoVars, camVars, settingsVars>>

NextHeap ==
    \/ HeapSend
    \/ \E e \in HeapPool : HeapDetectFresh(e)
    \/ \E e \in HeapPool, d \in 1..Len(heap) : HeapDetectInPlace(e, d)
    \/ HeapOnResults

SpecHeap == InitHeap /\ [][NextHeap]_vars


\* ------------------------------------------------- starting and stopping

\* the component is mounted: its state setters take effect and
\* videoRef.current is the video element
Mounted == phase # "unmounted"

\* startCamera() up to its first await.  The current component clears the
\* error first; `if (isCameraOn) return` reads the state of the render the
\* call comes from; otherwise the call is suspended at getUserMedia.  The
\* call belongs to one render, and the onResults it will register is that
\* render's, with that render's showArtisticAngles.
StartCameraCall ==
    /\ calls' = Append(calls, [pc   |-> IF isCameraOn THEN "returned" ELSE "gum",
                               show |-> showArtisticAngles])
    /\ error' = IF variant = "current" THEN "none" ELSE error
    /\ stoppedSince' = FALSE
    /\ UNCHANGED <<isCameraOn, streamRef, cameraInstanceRef, handsRef, srcObject,
                   metaOwner, liveStreams, runningCameras>>

\* stopCamera(); cleared is whether videoRef.current was still set, so that
\* srcObject is reset
StopCameraCall(cleared) ==
    /\ runningCameras' = runningCameras \ {cameraInstanceRef}
    /\ liveStreams' = liveStreams \ {streamRef}
    /\ streamRef' = 0
    /\ cameraInstanceRef' = 0
    /\ handsRef' = 0
    /\ srcObject' = IF cleared THEN 0 ELSE srcObject
    /\ isCameraOn' = FALSE
    /\ stoppedSince' = TRUE
    /\ UNCHANGED <<error, metaOwner, calls>>

\* a startCamera call ends with an exception: the current component catches
\* it, sets the error and turns isCameraOn off; the legacy component lets the
\* promise reject, and its callers log the error.  State setters of an
\* unmounted component do nothing.
Fail(c, msg) ==
    /\ calls' = [calls EXCEPT ![c].pc = "failed"]
    /\ error' = IF variant = "current" /\ Mounted THEN msg ELSE error
    /\ isCameraOn' = IF variant = "current" /\ Mounted THEN FALSE ELSE isCameraOn

\* useEffect(() => { startCamera(); ... }, []) after the first render
RunEffect ==
    /\ phase = "rendered"
    /\ phase' = "active"
    /\ StartCameraCall
    /\ UNCHANGED <<frameVars, geoVars, heapVars, settingsVars>>
    /\ UNCHANGED overlayVars

\* a click on the camera button (or Retry): toggleCamera
ToggleCamera ==
    /\ phase = "active"
    /\ IF isCameraOn
       THEN StopCameraCall(TRUE)
       ELSE Len(calls) < MaxCalls /\ StartCameraCall
    /\ UNCHANGED phase
    /\ UNCHANGED <<frameVars, geoVars, heapVars, settingsVars>>
    /\ UNCHANGED overlayVars

\* the component is unmounted: the effect's cleanup calls stopCamera; the
\* video ref may or may not have been detached by then
UnmountCleanup(detached) ==
    /\ phase = "active"
    /\ phase' = "unmounted"
    /\ StopCameraCall(~detached)
    /\ UNCHANGED <<frameVars, geoVars, heapVars, settingsVars>>
    /\ UNCHANGED overlayVars

\* getUserMedia resolves with a new live stream; without a video element the
\* call throws, otherwise the stream is attached and the call waits for the
\* metadata
GumResolve(c) ==
    /\ calls[c].pc = "gum"
    /\ liveStreams' = liveStreams \cup {c}
    /\ IF ~Mounted
       THEN /\ Fail(c, "Video element not found")
            /\ UNCHANGED <<streamRef, srcObject, metaOwner>>
       ELSE /\ srcObject' = c
            /\ streamRef' = c
            /\ metaOwner' = c
            /\ calls' = [calls EXCEPT ![c].pc = "meta"]
            /\ UNCHANGED <<error, isCameraOn>>
    /\ UNCHANGED <<phase, cameraInstanceRef, handsRef, runningCameras, stoppedSince>>
    /\ UNCHANGED <<frameVars, geoVars, heapVars, settingsVars>>
    /\ UNCHANGED overlayVars

\* getUserMedia rejects (permission denied, no device)
GumReject(c) ==
    /\ calls[c].pc = "gum"
    /\ Fail(c, "getUserMedia")
    /\ UNCHANGED <<phase, streamRef, cameraInstanceRef, handsRef, srcObject,
                   metaOwner, liveStreams, runningCameras, stoppedSince>>
    /\ UNCHANGED <<frameVars, geoVars, heapVars, settingsVars>>
    /\ UNCHANGED overlayVars

\* video.onloadedmetadata fires for the call whose handler is installed
MetaLoaded(c) ==
    /\ calls[c].pc = "meta"
    /\ metaOwner = c
    /\ srcObject = c
    /\ calls' = [calls EXCEPT ![c].pc = "play"]
    /\ UNCHANGED <<phase, isCameraOn, error, streamRef, cameraInstanceRef, handsRef,
                   srcObject, metaOwner, liveStreams, runningCameras, stoppedSince>>
    /\ UNCHANGED <<frameVars, geoVars, heapVars, settingsVars>>
    /\ UNCHANGED overlayVars

\* the 5000 ms timer (or video.onerror) rejects the metadata promise
MetaTimeout(c) ==
    /\ calls[c].pc = "meta"
    /\ Fail(c, "Timeout loading video metadata")
    /\ UNCHANGED <<phase, streamRef, cameraInstanceRef, handsRef, srcObject,
                   metaOwner, liveStreams, runningCameras, stoppedSince>>
    /\ UNCHANGED <<frameVars, geoVars, heapVars, settingsVars>>
    /\ UNCHANGED overlayVars

\* video.play() resolves: the detector and the camera loop are created, the
\* camera is started and isCameraOn is set
PlayResolve(c) ==
    /\ calls[c].pc = "play"
    /\ srcObject = c
    /\ calls' = [calls EXCEPT ![c].pc = "done"]
    /\ handsRef' = IF variant = "current" THEN c ELSE handsRef
    /\ cameraInstanceRef' = c
    /\ runningCameras' = runningCameras \cup {c}
    /\ isCameraOn' = IF Mounted THEN TRUE ELSE isCameraOn
    /\ UNCHANGED <<phase, error, streamRef, srcObject, metaOwner, liveStreams,
                   stoppedSince>>
    /\ UNCHANGED <<frameVars, geoVars, heapVars, settingsVars>>
    /\ UNCHANGED overlayVars

\* video.play() rejects (the load was aborted, autoplay is not allowed)
PlayReject(c) ==
    /\ calls[c].pc = "play"
    /\ Fail(c, "play")
    /\ UNCHANGED <<phase, streamRef, cameraInstanceRef, handsRef, srcObject,
                   metaOwner, liveStreams, runningCameras, stoppedSince>>
    /\ UNCHANGED <<frameVars, geoVars, heapVars, settingsVars>>
    /\ UNCHANGED overlayVars

\* Math.round(angle), for an angle in micro-degrees, in degrees
RoundDeg(a) == (a + 500000) \div 1000000

\* const displayedAngles = showArtisticAngles ? sideBendAngles : fingerAngles
DisplayedAngles(show, fingerAngles, sideBendAngles) ==
    IF show THEN sideBendAngles ELSE fingerAngles

\* the label and the angle lines onResults writes for a hand; the legacy
\* component writes the bend angles without a label
OverlayText(v, show, lm) ==
    IF v = "current"
    THEN [label  |-> IF show THEN "Side Bend" ELSE "Palm Bend",
          angles |-> [f \in Fingers |->
                         RoundDeg(DisplayedAngles(show, processAngles(lm),
                                                  processSideAngles(lm))[f])]]
    ELSE [label  |-> "none",
          angles |-> [f \in Fingers |-> RoundDeg(processAngles(lm)[f])]]

\* the hands the detector reports to a running camera
CamHands ==
    { MakeHand("open", [d |-> "none", k |-> 0]),
      MakeHand("bent", [d |-> "none", k |-> 0]) }

\* the detector a frame of camera c is sent to: handsRef.current in the
\* current component, the camera's own detector in the legacy one
DetectorOf(c) == IF variant = "current" THEN handsRef ELSE c

\* a click on the Side Bend / Palm Bend button
ToggleSideBend ==
    /\ phase = "active"
    /\ variant = "current"
    /\ showArtisticAngles' = ~showArtisticAngles
    /\ UNCHANGED <<phase, isCameraOn, error, streamRef, cameraInstanceRef, handsRef,
                   srcObject, metaOwner, calls, liveStreams, runningCameras,
                   stoppedSince, overlay>>
    /\ UNCHANGED <<frameVars, geoVars, heapVars, settingsVars>>

\* a running camera sends a frame with hand h to its detector, which invokes
\* the onResults registered with it: that of the render the startCamera call
\* came from
CameraFrame(c, h) ==
    /\ c \in runningCameras
    /\ Mounted
    /\ DetectorOf(c) # 0
    /\ \E t \in {OverlayText(variant, calls[DetectorOf(c)].show, MapLandmarks(h))} :
          overlay' = [drawn |-> TRUE, label |-> t.label, angles |-> t.angles,
                      selected |-> showArtisticAngles, lm |-> MapLandmarks(h)]
    /\ UNCHANGED <<phase, isCameraOn, error, streamRef, cameraInstanceRef, handsRef,
                   srcObject, metaOwner, calls, liveStreams, runningCameras,
                   stoppedSince, showArtisticAngles>>
    /\ UNCHANGED <<frameVars, geoVars, heapVars, settingsVars>>

InitCamera ==
    /\ variant \in {"legacy", "current"}
    /\ FrameIdle
    /\ GeoIdle
    /\ HeapIdle
    /\ CamIdle
    /\ SettingsIdle

NextCamera ==
    \/ RunEffect
    \/ ToggleCamera
    \/ \E detached \in BOOLEAN : UnmountCleanup(detached)
    \/ \E c \in 1..Len(calls) : GumResolve(c)
    \/ \E c \in 1..Len(calls) : GumReject(c)
    \/ \E c \in 1..Len(calls) : MetaLoaded(c)
    \/ \E c \in 1..Len(calls) : MetaTimeout(c)
    \/ \E c \in 1..Len(calls) : PlayResolve(c)
    \/ \E c \in 1..Len(calls) : PlayReject(c)
    \/ ToggleSideBend
    \/ \E c \in 1..Len(calls), h \in CamHands : CameraFrame(c, h)

SpecCamera == InitCamera /\ [][NextCamera]_vars


\* ------------------------------------------------------ the settings panel

DigitChars == <<"0", "1", "2", "3", "4", "5", "6", "7", "8", "9">>

IsDigit(c) == \E i \in 1..Len(DigitChars) : DigitChars[i] = c

DigitVal(c) == (CHOOSE i \in 1..Len(DigitChars) : DigitChars[i] = c) - 1

\* Number.prototype.toString() of a non-negative integer
RECURSIVE NumberToString(_)
NumberToString(n) ==
    IF n < 10 THEN <<DigitChars[n + 1]>>
    ELSE Append(NumberToString(n \div 10), DigitChars[(n % 10) + 1])

\* the value of the digits of text from position i on, up to the first
\* character that is no digit
RECURSIVE DigitsValue(_, _, _)
DigitsValue(text, i, acc) ==
    IF i > Len(text) \/ ~IsDigit(text[i]) THEN acc
    ELSE DigitsValue(text, i + 1, acc * 10 + DigitVal(text[i]))

\* parseInt(text): leading blanks and a sign are skipped, the digits that
\* follow are read up to the first other character; without a digit the
\* result is NaN
NaN == [nan |-> TRUE, n |-> 0]

RECURSIVE ParseFrom(_, _)
ParseFrom(text, i) ==
    IF i > Len(text) THEN NaN
    ELSE IF text[i] = " " THEN ParseFrom(text, i + 1)
    ELSE IF text[i] \in {"+", "-"}
    THEN IF i + 1 <= Len(text) /\ IsDigit(text[i + 1])
         THEN [nan |-> FALSE,
               n   |-> IF text[i] = "-" THEN 0 - DigitsValue(text, i + 1, 0)
                       ELSE DigitsValue(text, i + 1, 0)]
         ELSE NaN
    ELSE IF IsDigit(text[i]) THEN [nan |-> FALSE, n |-> DigitsValue(text, i, 0)]
    ELSE NaN

parseInt(text) == ParseFrom(text, 1)

presetSizes ==
    { [name |-> "Small",  width |-> 800,  height |-> 600],
      [name |-> "Medium", width |-> 1024, height |-> 768],
      [name |-> "Large",  width |-> 1200, height |-> 800],
      [name |-> "XL",     width |-> 1440, height |-> 900] }

\* a plausible slip: the height is not compared
SizeAccepted_widthOnly(width, height) ==
    /\ ~width.nan
    /\ width.n >= 600 /\ width.n <= 2560

\* width >= 600 && height >= 400 && width <= 2560 && height <= 1440; every
\* comparison with NaN is false
SizeAccepted(width, height) ==
    /\ ~width.nan /\ ~height.nan
    /\ width.n >= 600 /\ height.n >= 400 /\ width.n <= 2560 /\ height.n <= 1440

\* what a number input can hold: nothing, or the text of a number
InputTexts ==
    { <<>>,
      <<"3", "9", "9">>, <<"4", "0", "0">>, <<"5", "9", "9">>, <<"6", "0", "0">>,
      <<"1", "4", "4", "0">>, <<"1", "4", "4", "1">>,
      <<"2", "5", "6", "0">>, <<"2", "5", "6", "1">>,
      <<"-", "7", "0", "0">>, <<"1", "0", "2", "4", ".", "7">>, <<"1", "e", "3">> }

\* the settings button of the menu bar: the panel is mounted and its inputs
\* start from the current size
OpenSettings ==
    /\ ~showSettings
    /\ showSettings' = TRUE
    /\ customWidth' = NumberToString(windowSize.width)
    /\ customHeight' = NumberToString(windowSize.height)
    /\ applied' = "none"
    /\ UNCHANGED windowSize
    /\ UNCHANGED <<frameVars, geoVars, heapVars, camVars>>

\* onClose
CloseSettings ==
    /\ showSettings
    /\ showSettings' = FALSE
    /\ applied' = "none"
    /\ UNCHANGED <<windowSize, customWidth, customHeight>>
    /\ UNCHANGED <<frameVars, geoVars, heapVars, camVars>>

\* a click on a preset button
SelectPreset(preset) ==
    /\ showSettings
    /\ windowSize' = [width |-> preset.width, height |-> preset.height]
    /\ applied' = "none"
    /\ UNCHANGED <<showSettings, customWidth, customHeight>>
    /\ UNCHANGED <<frameVars, geoVars, heapVars, camVars>>

\* typing into the width input
TypeWidth(text) ==
    /\ showSettings
    /\ customWidth' = text
    /\ applied' = "none"
    /\ UNCHANGED <<windowSize, showSettings, customHeight>>
    /\ UNCHANGED <<frameVars, geoVars, heapVars, camVars>>

\* typing into the height input
TypeHeight(text) ==
    /\ showSettings
    /\ customHeight' = text
    /\ applied' = "none"
    /\ UNCHANGED <<windowSize, showSettings, customWidth>>
    /\ UNCHANGED <<frameVars, geoVars, heapVars, camVars>>

\* handleCustomSizeApply: the size is passed on when accepted, an alert is
\* shown otherwise
ApplyCustom ==
    /\ showSettings
    /\ IF SizeAccepted(parseInt(customWidth), parseInt(customHeight))
       THEN /\ windowSize' = [width  |-> parseInt(customWidth).n,
                              height |-> parseInt(customHeight).n]
            /\ applied' = "accepted"
       ELSE /\ applied' = "rejected"
            /\ UNCHANGED windowSize
    /\ UNCHANGED <<showSettings, customWidth, customHeight>>
    /\ UNCHANGED <<frameVars, geoVars, heapVars, camVars>>

InitSettings ==
    /\ variant \in {"legacy", "current"}
    /\ FrameIdle
    /\ GeoIdle
    /\ HeapIdle
    /\ CamIdle
    /\ SettingsIdle

NextSettings ==
    \/ OpenSettings
    \/ CloseSettings
    \/ \E preset \in presetSizes : SelectPreset(preset)
    \/ \E text \in InputTexts : TypeWidth(text)
    \/ \E text \in InputTexts : TypeHeight(text)
    \/ ApplyCustom

SpecSettings == InitSettings /\ [][NextSettings]_vars

\* ------------------------------------------------------------ properties

\* every HandData record handed to onHandData by the last onResults
Records ==
    UNION { { delivered[n][k] : k \in 1..Len(delivered[n]) } : n \in 1..Len(delivered) }

\* the frame reports no hand: multiHandLandmarks is absent or empty
ZeroHands(res) == ~res.hasLandmarks \/ res.multiHandLandmarks = <<>>

\* all 21 landmarks of a mapped list are present
AllPresent(lm) == Len(lm) = 21 /\ \A k \in 0..20 : Truthy(At(lm, k))

IsZeroVector(l) == Truthy(l) /\ l.x = 0 /\ l.y = 0 /\ l.z = 0

\* the finger whose joint triple ends in tip index t
FingerOfTip(t) == CHOOSE f \in Fingers : FINGER_JOINTS[f][3] = t

TipIndices == { FINGER_TIPS[i] : i \in 1..Len(FINGER_TIPS) }

\* the hand at position j of the frame is one the callback can process: it
\* has a handedness entry and 21 landmarks, none of them missing
WellFormedHand(res, j) ==
    /\ j <= Len(res.multiHandedness)
    /\ ~MapThrows(res.multiHandLandmarks[j])
    /\ AllPresent(MapLandmarks(res.multiHandLandmarks[j]))

\* the position of the hand whose processing raised the exception
ThrowingHand ==
    CHOOSE i \in 1..Len(results.multiHandLandmarks) :
        /\ ProcessHand(variant, results, i, now).thrownAt # "none"
        /\ \A j \in 1..(i - 1) : ProcessHand(variant, results, j, now).thrownAt = "none"

\* C1: a hand whose landmark list does not have exactly 21 points never
\* appears in the list passed to onHandData.
C1_OnlyFullHands ==
    pc = "done" => \A r \in Records : Len(r.landmarks) = 21

\* C2: onResults never throws for malformed single-hand input (missing
\* landmarks, wrong landmark count, missing handedness entry).
C2_NeverThrows ==
    pc = "done" => outcome # "threw" /\ thrownAt = "none"

\* C3: when the hand at one index fails, the records of every other
\* well-formed hand of the same frame are still delivered to onHandData.
C3_HandsIndependent ==
    (pc = "done" /\ outcome = "threw") =>
        \A j \in 1..Len(results.multiHandLandmarks) :
            WellFormedHand(results, j) =>
                \E r \in Records :
                    r.landmarks = MapLandmarks(results.multiHandLandmarks[j])

\* C4 (as stated): every invocation of the callback delivers exactly one list,
\* and for a frame with zero hands that list is empty.
C4_AlwaysDelivers ==
    pc = "done" =>
        /\ Len(delivered) = 1
        /\ ZeroHands(results) => delivered = << <<>> >>

\* C4 (amended): an invocation makes at most one onHandData call; with the
\* canvas context and the video element available and zero hands reported it
\* delivers exactly one list, the empty one; without them it delivers nothing.
C4_DeliversWhenMounted ==
    [][(pc = "detecting" /\ pc' = "done") =>
          /\ Len(delivered') <= 1
          /\ (~canvasCtx \/ ~videoEl) => delivered' = <<>>
          /\ (canvasCtx /\ videoEl /\ ZeroHands(results)) => delivered' = << <<>> >>]_vars

C4_Witness ==
    /\ pc = "done"
    /\ outcome = "delivered"
    /\ ZeroHands(results)
    /\ delivered = << <<>> >>

\* C5: the delivered list keeps the detector's hand order: record k is built
\* from the landmarks of the hand at position k of multiHandLandmarks.
C5_OrderPreserved ==
    (pc = "done" /\ outcome = "delivered" /\ HandsReported(results)) =>
        /\ Len(delivered) = 1
        /\ Len(delivered[1]) = Len(results.multiHandLandmarks)
        /\ \A k \in 1..Len(delivered[1]) :
              delivered[1][k].landmarks = MapLandmarks(results.multiHandLandmarks[k])

C5_Witness ==
    /\ pc = "done"
    /\ outcome = "delivered"
    /\ Len(delivered) = 1
    /\ Len(delivered[1]) = 2
    /\ delivered[1][1].landmarks # delivered[1][2].landmarks
    /\ delivered[1][1].landmarks = MapLandmarks(results.multiHandLandmarks[1])

\* C6: fingerAngles has exactly the five finger keys, and a finger with an
\* absent landmark in its joint triple has angle 0.
C6_FiveAngles ==
    \A r \in Records :
        /\ DOMAIN r.fingerAngles = {"Thumb", "Index", "Middle", "Ring", "Pinky"}
        /\ \A f \in Fingers :
              (\E n \in 1..3 : ~Truthy(At(r.landmarks, FINGER_JOINTS[f][n])))
                  => r.fingerAngles[f] = 0

C6_Witness ==
    \E r \in Records :
        /\ ~Truthy(At(r.landmarks, 20))
        /\ Truthy(At(r.landmarks, 17)) /\ Truthy(At(r.landmarks, 18))
        /\ r.fingerAngles["Pinky"] = 0
        /\ r.fingerAngles["Index"] # 0

\* a record of a hand with all 21 landmarks present and exactly one fingertip,
\* t, at the zero vector
OneZeroTip(r, t) ==
    /\ AllPresent(r.landmarks)
    /\ IsZeroVector(At(r.landmarks, t))
    /\ \A k \in 0..20 : k # t => ~IsZeroVector(At(r.landmarks, k))

\* C7 (as stated): with one fingertip at the zero vector, that finger's angle
\* is defaulted to 0 and the other four keep their computed angles.
C7_ZeroTipDefaults ==
    \A r \in Records : \A t \in TipIndices :
        OneZeroTip(r, t) =>
            /\ DOMAIN r.fingerAngles = Fingers
            /\ r.fingerAngles[FingerOfTip(t)] = 0
            /\ \A f \in Fingers \ {FingerOfTip(t)} :
                  r.fingerAngles[f] =
                      calculateAngle(At(r.landmarks, FINGER_JOINTS[f][1]),
                                     At(r.landmarks, FINGER_JOINTS[f][2]),
                                     At(r.landmarks, FINGER_JOINTS[f][3]))

\* C7 (amended): with one fingertip at the zero vector, fingerAngles has all
\* five entries and every finger, that one included, has the angle computed
\* from its joint triple: the zero vector is a present landmark.
C7_ZeroTipComputed ==
    \A r \in Records : \A t \in TipIndices :
        OneZeroTip(r, t) =>
            /\ DOMAIN r.fingerAngles = Fingers
            /\ \A f \in Fingers :
                  r.fingerAngles[f] =
                      calculateAngle(At(r.landmarks, FINGER_JOINTS[f][1]),
                                     At(r.landmarks, FINGER_JOINTS[f][2]),
                                     At(r.landmarks, FINGER_JOINTS[f][3]))

C7_Witness ==
    \E r \in Records : \E t \in TipIndices :
        /\ OneZeroTip(r, t)
        /\ r.fingerAngles[FingerOfTip(t)] # 0

\* C8: fingerPairAngles has keys among "4_8", "8_12", "12_16", "16_20", a
\* pair's entry is present exactly when both of its tips are present, and a
\* missing tip omits the pair instead of causing a failure.
C8_PairKeys ==
    pc = "done" =>
        /\ thrownAt # "processFingerPairAngles"
        /\ \A r \in Records :
              /\ DOMAIN r.fingerPairAngles \subseteq {"4_8", "8_12", "12_16", "16_20"}
              /\ ("4_8" \in DOMAIN r.fingerPairAngles) <=>
                    (Truthy(At(r.landmarks, 4)) /\ Truthy(At(r.landmarks, 8)))
              /\ ("8_12" \in DOMAIN r.fingerPairAngles) <=>
                    (Truthy(At(r.landmarks, 8)) /\ Truthy(At(r.landmarks, 12)))
              /\ ("12_16" \in DOMAIN r.fingerPairAngles) <=>
                    (Truthy(At(r.landmarks, 12)) /\ Truthy(At(r.landmarks, 16)))
              /\ ("16_20" \in DOMAIN r.fingerPairAngles) <=>
                    (Truthy(At(r.landmarks, 16)) /\ Truthy(At(r.landmarks, 20)))

\* C9: the gap of every record is >= 0, and a missing thumb tip (4) or index
\* tip (8) gives gap 0 instead of an error.
C9_GapFailSoft ==
    pc = "done" =>
        /\ \A r \in Records :
              /\ r.gap >= 0
              /\ (~Truthy(At(r.landmarks, 4)) \/ ~Truthy(At(r.landmarks, 8))) => r.gap = 0
        /\ (outcome = "threw" /\ thrownAt \in {"processFingerPairAngles", "gap"}) =>
              LET lm == MapLandmarks(results.multiHandLandmarks[ThrowingHand])
              IN  Truthy(At(lm, 4)) /\ Truthy(At(lm, 8))

\* C10: the handedness of record k is the label the detector reported at the
\* same index, and is Left or Right.
C10_Handedness ==
    (pc = "done" /\ outcome = "delivered" /\ Len(delivered) = 1) =>
        \A k \in 1..Len(delivered[1]) :
            /\ delivered[1][k].handedness = results.multiHandedness[k]
            /\ delivered[1][k].handedness \in {"Left", "Right"}

C10_Witness ==
    /\ pc = "done"
    /\ outcome = "delivered"
    /\ Len(delivered) = 1
    /\ Len(delivered[1]) = 2
    /\ delivered[1][1].handedness = "Left"
    /\ delivered[1][2].handedness = "Right"

\* the reflection of an absolute angle difference into [0, 180]
Reflect(d) == IF d > 180000000 THEN 360000000 - d ELSE d

\* the absolute difference of the polar angles of b -> c and b -> a in (x, y)
PolarDiff(a, b, c) ==
    Abs(Atan2Deg(c.y - b.y, c.x - b.x) - Atan2Deg(a.y - b.y, a.x - b.x))

\* the same in the (z, x) plane: atan2(x, z)
SidePolarDiff(a, b, c) ==
    Abs(Atan2Deg(c.x - b.x, c.z - b.z) - Atan2Deg(a.x - b.x, a.z - b.z))

\* the bend angle computed for the chosen landmarks: calculateAngle(a, b, c)
\* as processAngles stored it for the index finger
GeoAngle == gout.direct.fingerAngles["Index"]

\* C12: calculateAngle returns a value in [0, 180]: the absolute difference of
\* the two polar angles at b, a value above 180 reflected to 360 minus it.
C12_AngleRange ==
    gpc = "done" =>
        /\ GeoAngle \in 0..180000000
        /\ GeoAngle = Reflect(PolarDiff(ga, gb, gc))

C12_Witness ==
    /\ gpc = "done"
    /\ PolarDiff(ga, gb, gc) > 180000000
    /\ GeoAngle < 180000000
    /\ GeoAngle > 0

\* C13: calculateAngle(a, b, c) = calculateAngle(c, b, a).
C13_AngleSymmetric ==
    gpc = "done" => GeoAngle = gout.swapped["Index"]

C13_Witness ==
    /\ gpc = "done"
    /\ ga # gc
    /\ GeoAngle \notin {0, 180000000}
    /\ GeoAngle = gout.swapped["Index"]

\* C14: when the three points coincide the bend angle is 0, not NaN.
C14_CoincidentIsZero ==
    (gpc = "done" /\ ga = gb /\ gb = gc) => GeoAngle = 0

C14_Witness ==
    /\ gpc = "done"
    /\ ga = gb
    /\ gb = gc
    /\ GeoAngle = 0

\* the landmarks of the i-th hand for which onResults computed side bends
SideLandmarks(i) == MapLandmarks(results.multiHandLandmarks[i])

\* C15: processSideAngles returns exactly the five finger keys, each value in
\* [0, 180] and computed from the finger's joint triple in the (z, x) plane
\* with the reflection above 180; a finger with a missing landmark has 0.
C15_SideBendShape ==
    \A i \in 1..Len(sideBend) :
        /\ DOMAIN sideBend[i] = {"Thumb", "Index", "Middle", "Ring", "Pinky"}
        /\ \A f \in Fingers :
              LET a == At(SideLandmarks(i), FINGER_JOINTS[f][1])
                  b == At(SideLandmarks(i), FINGER_JOINTS[f][2])
                  c == At(SideLandmarks(i), FINGER_JOINTS[f][3])
              IN  /\ sideBend[i][f] \in 0..180000000
                  /\ (Truthy(a) /\ Truthy(b) /\ Truthy(c))
                        => sideBend[i][f] = Reflect(SidePolarDiff(a, b, c))
                  /\ ~(Truthy(a) /\ Truthy(b) /\ Truthy(c))
                        => sideBend[i][f] = 0

C15_Witness ==
    \E i \in 1..Len(sideBend) :
        /\ ~Truthy(At(SideLandmarks(i), 20))
        /\ sideBend[i]["Pinky"] = 0
        /\ sideBend[i]["Index"] \notin {0, 180000000}

\* the fingertip-pair angle computed for the chosen tips a (index 4) and c
\* (index 8)
GeoPair == gout.direct.fingerPairAngles["4_8"]

\* C16: every fingerPairAngles value is the absolute value of the direction
\* angle of the vector from the first tip to the second, so it lies in
\* [0, 180], and negating dy does not change it.
C16_PairAbsolute ==
    gpc = "done" =>
        /\ \A k \in DOMAIN gout.direct.fingerPairAngles :
              gout.direct.fingerPairAngles[k] \in 0..180000000
        /\ GeoPair = Abs(Atan2Deg(gc.y - ga.y, gc.x - ga.x))
        /\ GeoPair = gout.mirrored["4_8"]

C16_Witness ==
    /\ gpc = "done"
    /\ gc.y < ga.y
    /\ gc.x # ga.x
    /\ GeoPair \notin {0, 180000000}
    /\ GeoPair = gout.mirrored["4_8"]

\* the vectors from the index joint b to the base a and to the tip c
GeoCross == (ga.x - gb.x) * (gc.y - gb.y) - (ga.y - gb.y) * (gc.x - gb.x)
GeoDot == (ga.x - gb.x) * (gc.x - gb.x) + (ga.y - gb.y) * (gc.y - gb.y)

\* C17: with 5, 6, 8 colinear and the joint strictly between base and tip,
\* fingerAngles.Index is 180; with 6->5 and 6->8 perpendicular it is 90.
C17_StraightAndRight ==
    gpc = "done" =>
        /\ (GeoCross = 0 /\ GeoDot < 0) => GeoAngle = 180000000
        /\ (GeoDot = 0 /\ GeoCross # 0) => GeoAngle = 90000000

C17_Witness ==
    /\ gpc = "done"
    /\ GeoDot = 0
    /\ GeoCross # 0
    /\ ga.x # gb.x
    /\ ga.y # gb.y
    /\ PolarDiff(ga, gb, gc) = 270000000
    /\ GeoAngle = 90000000

\* C18: the gap is the Euclidean distance of landmarks 4 and 8 in the (x, y)
\* plane (here in thousandths, rounded down), whatever their z; for the thumb
\* tip at (0,0,0) and the index tip at (3,4,0) it is 5.
C18_GapEuclidean ==
    gpc = "done" =>
        LET g == gout.direct.gap
            d2 == (gc.x - ga.x) * (gc.x - ga.x) + (gc.y - ga.y) * (gc.y - ga.y)
        IN  /\ g >= 0
            /\ g * g <= d2 * 1000000
            /\ (g + 1) * (g + 1) > d2 * 1000000
            /\ gout.lifted = g
            /\ (ga = Landmark(0, 0, 0) /\ gc = Landmark(3, 4, 0)) => g = 5000

C18_Witness ==
    /\ gpc = "done"
    /\ ga = Landmark(0, 0, 0)
    /\ gc = Landmark(3, 4, 0)
    /\ gout.direct.gap = 5000
    /\ gout.lifted = 5000


Retained ==
    LET recs == UNION { Range(heap[l].items) : l \in Range(handData) }
        lms == UNION { Range(heap[r].items) : r \in recs }
        pts == UNION { { q \in Range(heap[a].items) : q > 0 } : a \in lms }
    IN  Range(handData) \cup recs \cup lms \cup pts

DetectorOwned == { a \in 1..Len(heap) : heap[a].owner = "detector" }

\* C19: no step changes an object reachable from an array already delivered;
\* what a delivered array reaches is never an object of the detector; an
\* onResults call reaches only objects it allocated itself from its new
\* array, and leaves the detector's objects as they were.
C19_FreshAndImmutable ==
    [][/\ \A a \in Retained : heap'[a] = heap[a]
       /\ Retained' \cap DetectorOwned' = {}
       /\ (hpc = "detecting" /\ hpc' = "done") =>
             /\ (Retained' \ Retained) \cap (1..Len(heap)) = {}
             /\ \A a \in DetectorOwned : heap'[a] = heap[a]]_vars

\* a record delivered for the first frame still reads as delivered after the
\* detector has overwritten the objects it was built from and a later frame
\* has been delivered
C19_Witness ==
    /\ Len(handData) >= 2
    /\ trace[1].hands # <<>>
    /\ DerefHands(heap, handData[1]) = trace[1].hands
    /\ \E d \in DetectorOwned :
          /\ heap[d].kind = "array"
          /\ \A c \in DetectorOwned : heap[c].kind = "array" => d <= c
          /\ DerefRaw(heap, d) # trace[1].input.multiHandLandmarks[1]


\* C20: once stopCamera has run, and until startCamera is called again, no
\* stream is live, no camera loop runs, both refs are null and isCameraOn is
\* false, whatever a startCamera call suspended at an await does on resuming.
C20_StopIsFinal ==
    stoppedSince =>
        /\ liveStreams = {}
        /\ runningCameras = {}
        /\ streamRef = 0
        /\ cameraInstanceRef = 0
        /\ ~isCameraOn


\* C21: while the component is mounted (mount, toggleCamera and Retry clicks
\* only), at most one stream is live and at most one camera loop runs, and
\* every live stream is the one streamRef refers to.
C21_SingleStream ==
    phase = "active" =>
        /\ Cardinality(liveStreams) <= 1
        /\ Cardinality(runningCameras) <= 1
        /\ liveStreams \subseteq {streamRef}


\* C22: in the mounted current component, a startCamera call that failed has
\* left no stream of its own live; and when the only call made has failed,
\* isCameraOn is false and the error message is set.
C22_FailureCleansUp ==
    (variant = "current" /\ phase = "active") =>
        /\ \A c \in 1..Len(calls) : calls[c].pc = "failed" => c \notin liveStreams
        /\ (Len(calls) = 1 /\ calls[1].pc = "failed") =>
              (~isCameraOn /\ error # "none")


\* C23: in the current component, the overlay drawn for a frame shows the
\* angle family selected by showArtisticAngles as it was when the frame was
\* processed: the side-bend angles under "Side Bend" when true, the bend
\* angles under "Palm Bend" when false.
C23_OverlayFollowsToggle ==
    (variant = "current" /\ overlay.drawn) =>
        /\ overlay.label = (IF overlay.selected THEN "Side Bend" ELSE "Palm Bend")
        /\ overlay.angles =
              [f \in Fingers |->
                  RoundDeg(IF overlay.selected
                           THEN processSideAngles(overlay.lm)[f]
                           ELSE processAngles(overlay.lm)[f])]


\* the size is within the limits of the panel
WindowInRange(size) ==
    /\ 600 <= size.width /\ size.width <= 2560
    /\ 400 <= size.height /\ size.height <= 1440

\* the integer the text starts with is within lo..hi
ParsesWithin(text, lo, hi) ==
    /\ ~parseInt(text).nan
    /\ lo <= parseInt(text).n
    /\ parseInt(text).n <= hi

\* C24: windowSize always satisfies 600 <= width <= 2560 and 400 <= height <=
\* 1440, and a custom apply whose parsed width or height is out of range or
\* not a number leaves windowSize unchanged.
C24_WindowSizeBounded ==
    [][/\ WindowInRange(windowSize)
       /\ WindowInRange(windowSize')
       /\ (applied' # "none"
           /\ ~(ParsesWithin(customWidth, 600, 2560)
                /\ ParsesWithin(customHeight, 400, 1440)))
             => windowSize' = windowSize]_vars

\* a custom size at both upper limits was applied, and a later apply with an
\* input that is no number was refused
C24_Witness ==
    /\ applied = "rejected"
    /\ parseInt(customWidth).nan
    /\ windowSize = [width |-> 2560, height |-> 1440]

====
